---- MODULE Spec2Model ----
(***************************************************************************)
(* Model of check_apc.py, a monitoring plugin that reads the status of an  *)
(* APC UPS through `apcaccess status`, scores battery charge, runtime and  *)
(* voltage against warning/critical thresholds and ends with one report    *)
(* line and an exit status.                                                *)
(*                                                                         *)
(* Conventions of the model                                                *)
(*  - A Python float is held exactly as an integer number of tenths: every *)
(*    raw status value and every threshold of the model carries at most    *)
(*    one fractional digit.  No raw value is a negative zero.              *)
(*  - A raw status value (a Python str) is a sequence of one-character     *)
(*    strings, so that the regular expression of getValue can be applied   *)
(*    to it character by character.                                        *)
(*  - An optional threshold (None or a float, as argparse delivers it) is  *)
(*    a record [set, val]; None is [set |-> FALSE, val |-> 0].             *)
(*  - options are the values argparse returned: parse_args itself (usage   *)
(*    errors, --help) is not modelled.                                     *)
(***************************************************************************)
EXTENDS Integers, Sequences, FiniteSets, TLC

VARIABLES
    pc,           \* position of the script
    options,      \* result of parseCommandLine()
    apcinfo,      \* result of getAPCInfo(): dict key -> raw value
    queried,      \* TRUE once getAPCInfo() has been called
    on_batt,
    always_ok,
    status,
    text,
    perfdata,
    checked,      \* keys of the metrics checkValue has been called for
    raised,       \* "" or the name of the exception that ended the try block
    stdout,       \* lines written to standard output
    exit_status,  \* -1 while the process runs
    cv_val, cv_warn, cv_crit, cv_min, cv_result   \* one call of checkValue

vars == <<pc, options, apcinfo, queried, on_batt, always_ok, status, text,
          perfdata, checked, raised, stdout, exit_status,
          cv_val, cv_warn, cv_crit, cv_min, cv_result>>

cvVars == <<cv_val, cv_warn, cv_crit, cv_min, cv_result>>

----------------------------------------------------------------------------
(* Bounds *)

\* TONBATT readings are 0, 120, ..., 120 * MaxTonbatt seconds
MaxTonbatt == 1

\* checkValue is called on its own with values and thresholds in
\* -MaxVal .. MaxVal (whole numbers, held in tenths)
MaxVal == 2

----------------------------------------------------------------------------
(* Optional floats *)

None == [set |-> FALSE, val |-> 0]

Some(v) == [set |-> TRUE, val |-> v]

\* Python truth value of an optional float: None and 0.0 are false
Truthy(x) == x.set /\ x.val # 0

----------------------------------------------------------------------------
(* Strings *)

Digits == <<"0", "1", "2", "3", "4", "5", "6", "7", "8", "9">>

IsDigit(c) == \E i \in 1..10 : Digits[i] = c

DigitVal(c) == (CHOOSE i \in 1..10 : Digits[i] = c) - 1

RECURSIVE NatChars(_)
\* the decimal digits of a natural number, as characters
NatChars(n) ==
    IF n < 10 THEN <<Digits[n + 1]>>
    ELSE Append(NatChars(n \div 10), Digits[(n % 10) + 1])

RECURSIVE NatOf(_)
\* the natural number a run of digits denotes (0 for the empty run)
NatOf(ds) ==
    IF ds = <<>> THEN 0
    ELSE 10 * NatOf(SubSeq(ds, 1, Len(ds) - 1)) + DigitVal(ds[Len(ds)])

RECURSIVE DigitRun(_, _)
\* [0-9]* applied at position i: the first position after the run
DigitRun(s, i) ==
    IF i <= Len(s) /\ IsDigit(s[i]) THEN DigitRun(s, i + 1) ELSE i

\* re.findall(r'[-+]?[0-9]*\.?[0-9]*', s)[0]: the pattern matches the empty
\* string, so the first match always starts at the first character
LeadingToken(s) ==
    LET signEnd == IF Len(s) >= 1 /\ s[1] \in {"-", "+"} THEN 2 ELSE 1
        intEnd  == DigitRun(s, signEnd)
        dotEnd  == IF intEnd <= Len(s) /\ s[intEnd] = "." THEN intEnd + 1 ELSE intEnd
        fracEnd == DigitRun(s, dotEnd)
    IN  [sign |-> SubSeq(s, 1, signEnd - 1),
         int  |-> SubSeq(s, signEnd, intEnd - 1),
         dot  |-> SubSeq(s, intEnd, dotEnd - 1),
         frac |-> SubSeq(s, dotEnd, fracEnd - 1)]

\* float(token) raises ValueError unless the token has a digit
IsFloatLiteral(tok) == tok.int # <<>> \/ tok.frac # <<>>

\* float(token), in tenths
FloatOf(tok) ==
    LET mag == 10 * NatOf(tok.int)
               + (IF tok.frac = <<>> THEN 0 ELSE DigitVal(tok.frac[1]))
    IN  IF tok.sign = <<"-">> THEN 0 - mag ELSE mag

\* str(float) of a value held in tenths: 1000 is "100.0", -5 is "-0.5"
FloatStr(v) ==
    LET mag == IF v < 0 THEN 0 - v ELSE v
    IN  (IF v < 0 THEN "-" ELSE "") \o ToString(mag \div 10) \o "."
        \o ToString(mag % 10)

RECURSIVE Join(_, _)
\* sep.join(parts)
Join(parts, sep) ==
    IF parts = <<>> THEN ""
    ELSE IF Len(parts) = 1 THEN parts[1]
    ELSE parts[1] \o sep \o Join(Tail(parts), sep)

Range(s) == {s[i] : i \in DOMAIN s}

----------------------------------------------------------------------------
(* The functions of the script *)

\* getValue(info, key, True).  A missing key raises KeyError and a token
\* without digits raises ValueError inside the try; the handler clause
\* `except exception` then evaluates the undefined name `exception`, which
\* raises NameError in place of the PluginUnknownException of line 35.
GetValue(info, key) ==
    IF key \notin DOMAIN info
    THEN [raised |-> "NameError", value |-> 0]
    ELSE LET tok == LeadingToken(info[key]) IN
         IF ~IsFloatLiteral(tok)
         THEN [raised |-> "NameError", value |-> 0]
         ELSE [raised |-> "", value |-> FloatOf(tok)]

checkValue(val, warn, crit, threshold_is_minimum) ==
    IF threshold_is_minimum
    THEN IF Truthy(crit) /\ val < crit.val THEN 2
         ELSE IF Truthy(warn) /\ val < warn.val THEN 1
         ELSE 0
    ELSE IF Truthy(crit) /\ val > crit.val THEN 2
         ELSE IF Truthy(warn) /\ val > warn.val THEN 1
         ELSE 0

stateText(state) ==
    IF state = 3 THEN "UNKNOWN"
    ELSE IF state = 2 THEN "CRITICAL"
    ELSE IF state = 1 THEN "WARNING"
    ELSE "OK"

\* the range test parseCommandLine applies to one charge threshold
OutOfRange(t) == Truthy(t) /\ (t.val < 0 \/ t.val > 1000)

\* parseCommandLine() after parse_args: "" when it returns the options, else
\* the exception it raises.  The raise statements name the undefined class
\* UnknownPluginException, so what is raised is a NameError.
ParseRaises(opts) ==
    IF OutOfRange(opts.chargewarn) THEN "NameError"
    ELSE IF OutOfRange(opts.chargecrit) THEN "NameError"
    ELSE ""

alwaysOkIgnoringPower(online, onBatt) == online

AlwaysOk(online, onBatt) == online /\ ~onBatt

PowerText(onBatt) == IF onBatt THEN <<"on battery">> ELSE <<"online">>

requestedAlways(warn, crit) == TRUE

\* the gate in front of each metric block
Requested(warn, crit) == Truthy(warn) \/ Truthy(crit)

MetricText(key, v) ==
    CASE key = "BCHARGE"  -> "charge: " \o FloatStr(v) \o "%"
      [] key = "TIMELEFT" -> "available runtime: " \o FloatStr(v) \o " minutes"
      [] key = "BATTV"    -> "voltage: " \o FloatStr(v) \o "V"

MetricPerf(key, v) ==
    CASE key = "BCHARGE"  -> "charge=" \o FloatStr(v) \o "%"
      [] key = "TIMELEFT" -> "runtime=" \o FloatStr(v)
      [] key = "BATTV"    -> "voltage=" \o FloatStr(v)

newStatusLast(old, new) == new

\* status = new_status if new_status > status else status
NewStatus(old, new) == IF new > old THEN new ELSE old

scoreAlways(alwaysOk) == TRUE

\* if not always_ok: the metric is scored
Scored(alwaysOk) == ~alwaysOk

\* One metric block of the script applied to the locals
\* L = [status, text, perfdata, checked, raised]
MetricBlock(L, info, alwaysOk, key, warn, crit) ==
    IF L.raised # "" \/ ~Requested(warn, crit) THEN L
    ELSE LET g == GetValue(info, key) IN
         IF g.raised # "" THEN [L EXCEPT !.raised = g.raised]
         ELSE LET shown == [L EXCEPT !.text = Append(@, MetricText(key, g.value)),
                                     !.perfdata = Append(@, MetricPerf(key, g.value))]
              IN  IF Scored(alwaysOk)
                  THEN [shown EXCEPT
                          !.status = NewStatus(@, checkValue(g.value, warn, crit, TRUE)),
                          !.checked = @ \cup {key}]
                  ELSE shown

forcedStatusAnyText(st, onBatt, txt, alwaysOk) ==
    IF onBatt /\ ~alwaysOk THEN 2 ELSE st

forcedStatusNever(st, onBatt, txt, alwaysOk) == st

\* if on_batt and len(text) == 1 and not always_ok: status=2
ForcedStatus(st, onBatt, txt, alwaysOk) ==
    IF onBatt /\ Len(txt) = 1 /\ ~alwaysOk THEN 2 ELSE st

\* the line the normal path prints
ReportLine(st, txt, perf) ==
    "UPS " \o stateText(st) \o " - " \o Join(txt, ", ") \o ";"
    \o (IF perf # <<>> THEN "| " \o Join(perf, ",") ELSE "")

\* the line the handler of PluginUnknownException prints
UnknownLine(msg) == "UPS " \o stateText(3) \o " - " \o msg

\* How the process ends when exception exc leaves the try block: the handler
\* of PluginUnknownException prints and exits 3; any other exception is
\* uncaught, the interpreter writes a traceback to stderr and exits 1.
Ending(exc, msg) ==
    IF exc = "PluginUnknownException"
    THEN [stdout |-> <<UnknownLine(msg)>>, exit_status |-> 3]
    ELSE [stdout |-> <<>>, exit_status |-> 1]

----------------------------------------------------------------------------
(* Inputs *)

Keys == {"TONBATT", "BCHARGE", "TIMELEFT", "BATTV"}

Seconds == <<" ", "S", "e", "c", "o", "n", "d", "s">>

\* raw values `apcaccess status` may report for a key
RawChoices(key) ==
    CASE key = "TONBATT" ->
            {NatChars(120 * k) \o Seconds : k \in 0..MaxTonbatt}
            \cup {<<"N", "/", "A">>}
      [] key = "BCHARGE" ->
            {<<"1", "0", ".", "0", " ", "P", "e", "r", "c", "e", "n", "t">>,
             <<"1", "0", "0", ".", "0", " ", "P", "e", "r", "c", "e", "n", "t">>,
             <<>>}
      [] key = "TIMELEFT" ->
            {<<"5", ".", "0", " ", "M", "i", "n", "u", "t", "e", "s">>,
             <<"4", "5", ".", "0", " ", "M", "i", "n", "u", "t", "e", "s">>,
             <<"-">>}
      [] key = "BATTV" ->
            {<<"1", "3", ".", "5", " ", "V", "o", "l", "t", "s">>,
             <<"+", "9", ".">>,
             <<".">>}

\* a key of the status output: absent, or present with a raw value
Entries(key) ==
    {[present |-> FALSE, raw |-> <<>>]}
    \cup {[present |-> TRUE, raw |-> r] : r \in RawChoices(key)}

\* the dict built from one entry per key
MakeDict(e) == [k \in {j \in Keys : e[j].present} |-> e[k].raw]

StatusRecords ==
    {MakeDict([k \in Keys |-> CASE k = "TONBATT" -> t [] k = "BCHARGE" -> c
                                [] k = "TIMELEFT" -> r [] k = "BATTV" -> v]) :
        t \in Entries("TONBATT"), c \in Entries("BCHARGE"),
        r \in Entries("TIMELEFT"), v \in Entries("BATTV")}

\* thresholds the operator may pass (tenths); the charge thresholds include
\* zero and values outside [0, 100]
WarnChoices(key) ==
    CASE key = "BCHARGE"  -> {None, Some(0), Some(500), Some(1500)}
      [] key = "TIMELEFT" -> {None, Some(300)}
      [] key = "BATTV"    -> {None, Some(120)}

CritChoices(key) ==
    CASE key = "BCHARGE"  -> {None, Some(200), Some(0 - 50)}
      [] key = "TIMELEFT" -> {None, Some(100)}
      [] key = "BATTV"    -> {None, Some(110)}

OptionSets ==
    [online : BOOLEAN,
     chargewarn : WarnChoices("BCHARGE"), chargecrit : CritChoices("BCHARGE"),
     timewarn : WarnChoices("TIMELEFT"), timecrit : CritChoices("TIMELEFT"),
     voltwarn : WarnChoices("BATTV"), voltcrit : CritChoices("BATTV")]

NoOptions ==
    [online |-> FALSE, chargewarn |-> None, chargecrit |-> None,
     timewarn |-> None, timecrit |-> None, voltwarn |-> None, voltcrit |-> None]

\* the failures of subprocess.run that getAPCInfo turns into
\* PluginUnknownException, with the message each one carries
QueryFailures ==
    {"Apcaccess command exited with error 1",
     "Failed to run apcaccess: [Errno 2] No such file or directory: '/sbin/apcaccess'"}

WarnOf(opts, key) ==
    CASE key = "BCHARGE"  -> opts.chargewarn
      [] key = "TIMELEFT" -> opts.timewarn
      [] key = "BATTV"    -> opts.voltwarn

CritOf(opts, key) ==
    CASE key = "BCHARGE"  -> opts.chargecrit
      [] key = "TIMELEFT" -> opts.timecrit
      [] key = "BATTV"    -> opts.voltcrit

----------------------------------------------------------------------------
(* The run of the script *)

Locals ==
    [status |-> status, text |-> text, perfdata |-> perfdata,
     checked |-> checked, raised |-> raised]

Init ==
    /\ pc = "parse"
    /\ options = NoOptions
    /\ apcinfo = <<>>
    /\ queried = FALSE
    /\ on_batt = FALSE
    /\ always_ok = FALSE
    /\ status = 0
    /\ text = <<>>
    /\ perfdata = <<>>
    /\ checked = {}
    /\ raised = ""
    /\ stdout = <<>>
    /\ exit_status = -1
    /\ cv_val = 0 /\ cv_warn = None /\ cv_crit = None /\ cv_min = TRUE
    /\ cv_result = -1

\* the try block is left by exception exc: the process ends
Abort(exc, msg) ==
    /\ raised' = exc
    /\ stdout' = Ending(exc, msg).stdout
    /\ exit_status' = Ending(exc, msg).exit_status
    /\ pc' = "exited"

\* options = parseCommandLine()
ParseCommandLine ==
    /\ pc = "parse"
    /\ \E opts \in OptionSets :
        /\ options' = opts
        /\ IF ParseRaises(opts) # ""
           THEN Abort(ParseRaises(opts), "")
           ELSE /\ pc' = "query"
                /\ UNCHANGED <<raised, stdout, exit_status>>
    /\ UNCHANGED <<apcinfo, queried, on_batt, always_ok, status, text,
                   perfdata, checked>>
    /\ UNCHANGED cvVars

\* apcinfo = getAPCInfo()
GetAPCInfo ==
    /\ pc = "query"
    /\ queried' = TRUE
    /\ \/ \E msg \in QueryFailures :
            /\ Abort("PluginUnknownException", msg)
            /\ UNCHANGED apcinfo
       \/ \E info \in StatusRecords :
            /\ apcinfo' = info
            /\ pc' = "onbatt"
            /\ UNCHANGED <<raised, stdout, exit_status>>
    /\ UNCHANGED <<options, on_batt, always_ok, status, text, perfdata, checked>>
    /\ UNCHANGED cvVars

\* on_batt, always_ok, status, text, perfdata (lines 118-126)
OnBattery ==
    /\ pc = "onbatt"
    /\ LET g == GetValue(apcinfo, "TONBATT") IN
        IF g.raised # ""
        THEN /\ Abort(g.raised, "")
             /\ UNCHANGED <<on_batt, always_ok, status, text, perfdata>>
        ELSE /\ on_batt' = (g.value > 0)
             /\ always_ok' = AlwaysOk(options.online, g.value > 0)
             /\ status' = 0
             /\ text' = PowerText(g.value > 0)
             /\ perfdata' = <<>>
             /\ pc' = "charge"
             /\ UNCHANGED <<raised, stdout, exit_status>>
    /\ UNCHANGED <<options, apcinfo, queried, checked>>
    /\ UNCHANGED cvVars

\* one of the three metric blocks, at position here, followed by position next
MetricStep(here, next, key) ==
    /\ pc = here
    /\ LET L == MetricBlock(Locals, apcinfo, always_ok, key,
                            WarnOf(options, key), CritOf(options, key)) IN
        IF L.raised # ""
        THEN /\ Abort(L.raised, "")
             /\ UNCHANGED <<status, text, perfdata, checked>>
        ELSE /\ status' = L.status
             /\ text' = L.text
             /\ perfdata' = L.perfdata
             /\ checked' = L.checked
             /\ pc' = next
             /\ UNCHANGED <<raised, stdout, exit_status>>
    /\ UNCHANGED <<options, apcinfo, queried, on_batt, always_ok>>
    /\ UNCHANGED cvVars

CheckCharge == MetricStep("charge", "runtime", "BCHARGE")

CheckRuntime == MetricStep("runtime", "voltage", "TIMELEFT")

CheckVoltage == MetricStep("voltage", "report", "BATTV")

\* lines 159-170: the forced CRITICAL, the report line, sys.exit(status)
Report ==
    /\ pc = "report"
    /\ status' = ForcedStatus(status, on_batt, text, always_ok)
    /\ stdout' = <<ReportLine(status', text, perfdata)>>
    /\ exit_status' = status'
    /\ pc' = "exited"
    /\ UNCHANGED <<options, apcinfo, queried, on_batt, always_ok, text,
                   perfdata, checked, raised>>
    /\ UNCHANGED cvVars

Next ==
    \/ ParseCommandLine
    \/ GetAPCInfo
    \/ OnBattery
    \/ CheckCharge
    \/ CheckRuntime
    \/ CheckVoltage
    \/ Report

Spec == Init /\ [][Next]_vars

\* The whole run as a function of its inputs: the steps above, composed
RunResult(opts, info) ==
    LET crash(exc) == [status |-> 0, text |-> <<>>, perfdata |-> <<>>,
                       checked |-> {}, raised |-> exc]
        t == GetValue(info, "TONBATT")
    IN  IF ParseRaises(opts) # "" THEN crash(ParseRaises(opts))
        ELSE IF t.raised # "" THEN crash(t.raised)
        ELSE LET ob == t.value > 0
                 ao == AlwaysOk(opts.online, ob)
                 L0 == [status |-> 0, text |-> PowerText(ob), perfdata |-> <<>>,
                        checked |-> {}, raised |-> ""]
                 L1 == MetricBlock(L0, info, ao, "BCHARGE", opts.chargewarn, opts.chargecrit)
                 L2 == MetricBlock(L1, info, ao, "TIMELEFT", opts.timewarn, opts.timecrit)
                 L3 == MetricBlock(L2, info, ao, "BATTV", opts.voltwarn, opts.voltcrit)
             IN  IF L3.raised # "" THEN crash(L3.raised)
                 ELSE [L3 EXCEPT !.status = ForcedStatus(@, ob, L3.text, ao)]

----------------------------------------------------------------------------
(* checkValue called on its own *)

CvValues == {10 * k : k \in (0 - MaxVal)..MaxVal}

CvThresholds == {None} \cup {Some(v) : v \in CvValues}

InitCheckValue ==
    /\ pc = "checkValue"
    /\ options = NoOptions
    /\ apcinfo = <<>>
    /\ queried = FALSE
    /\ on_batt = FALSE
    /\ always_ok = FALSE
    /\ status = 0
    /\ text = <<>>
    /\ perfdata = <<>>
    /\ checked = {}
    /\ raised = ""
    /\ stdout = <<>>
    /\ exit_status = -1
    /\ cv_val \in CvValues
    /\ cv_warn \in CvThresholds
    /\ cv_crit \in CvThresholds
    /\ cv_min \in BOOLEAN
    /\ cv_result = -1

CallCheckValue ==
    /\ pc = "checkValue"
    /\ cv_result' = checkValue(cv_val, cv_warn, cv_crit, cv_min)
    /\ pc' = "returned"
    /\ UNCHANGED <<cv_val, cv_warn, cv_crit, cv_min>>
    /\ UNCHANGED <<options, apcinfo, queried, on_batt, always_ok, status, text,
                   perfdata, checked, raised, stdout, exit_status>>

NextCheckValue == CallCheckValue

SpecCheckValue == InitCheckValue /\ [][NextCheckValue]_vars

----------------------------------------------------------------------------
(* What the properties speak of *)

MetricKeys == {"BCHARGE", "TIMELEFT", "BATTV"}

\* a threshold was given on the command line, whatever its value
Given(t) == t.set

NoThresholdGiven(opts) ==
    \A k \in MetricKeys : ~Given(WarnOf(opts, k)) /\ ~Given(CritOf(opts, k))

\* the status query returned a record
GotRecord == queried /\ raised # "PluginUnknownException"

\* key has a value with a parsable leading number in the record
Readable(info, key) ==
    key \in DOMAIN info /\ IsFloatLiteral(LeadingToken(info[key]))

\* the run printed its report line and left through sys.exit(status)
EndedNormally == pc = "exited" /\ raised = ""

TokenStr(tok) == Join(tok.sign \o tok.int \o tok.dot \o tok.frac, "")

\* the messages line 35 gives a PluginUnknownException of getValue
NoValueMessages ==
    {"No value for " \o k \o " available from apcaccess: '" \o k \o "'" : k \in Keys}
    \cup {"No value for " \o k \o " available from apcaccess: "
          \o "could not convert string to float: '" \o TokenStr(LeadingToken(r)) \o "'" :
            k \in Keys, r \in UNION {RawChoices(j) : j \in Keys}}

\* the messages lines 103 and 106 give the rejection of a charge threshold
RangeMessages ==
    {"Percent battery " \o w \o " threshold must be between 0 and 100, value was "
     \o FloatStr(t.val) :
        w \in {"warning", "critical"},
        t \in (WarnChoices("BCHARGE") \cup CritChoices("BCHARGE")) \ {None}}

----------------------------------------------------------------------------
(* C1 *)

\* the threshold law, a threshold counting as set whenever it was given
ThresholdLaw(val, warn, crit, isMin) ==
    IF isMin
    THEN IF Given(crit) /\ val < crit.val THEN 2
         ELSE IF Given(warn) /\ val < warn.val THEN 1
         ELSE 0
    ELSE IF Given(crit) /\ val > crit.val THEN 2
         ELSE IF Given(warn) /\ val > warn.val THEN 1
         ELSE 0

\* C1: checkValue returns CRITICAL iff crit is set and the value is beyond
\* crit, else WARNING iff warn is set and the value is beyond warn, else OK,
\* for thresholds that are unset or set to any number, zero included
C1_ThresholdLaw ==
    pc = "returned" =>
        cv_result = ThresholdLaw(cv_val, cv_warn, cv_crit, cv_min)

----------------------------------------------------------------------------
(* C2 *)

OnBatteryNoChecks ==
    /\ pc = "exited"
    /\ GotRecord
    /\ Readable(apcinfo, "TONBATT")
    /\ GetValue(apcinfo, "TONBATT").value > 0
    /\ NoThresholdGiven(options)
    /\ ~always_ok

\* C2: a run on battery with no threshold given and alwaysOk false prints
\* `UPS CRITICAL - on battery;` without perfdata and exits with status 2
C2_OnBatteryNoChecksCritical ==
    OnBatteryNoChecks =>
        /\ stdout = <<"UPS CRITICAL - on battery;">>
        /\ exit_status = 2

C2_Witness == OnBatteryNoChecks /\ ~options.online

----------------------------------------------------------------------------
(* C3 *)

OnBattery120WithOnlineFlag ==
    /\ pc = "exited"
    /\ GotRecord
    /\ "TONBATT" \in DOMAIN apcinfo
    /\ apcinfo["TONBATT"] = <<"1", "2", "0">> \o Seconds
    /\ NoThresholdGiven(options)
    /\ options.online

\* C3 as stated: with TONBATT = 120 seconds, no threshold and --online the
\* run prints `UPS OK - on battery;` and exits with status 0
C3_OnlineFlagGivesOk ==
    OnBattery120WithOnlineFlag =>
        /\ stdout = <<"UPS OK - on battery;">>
        /\ exit_status = 0

\* C3 amended: with TONBATT = 120 seconds, no threshold and --online,
\* alwaysOk is false (the UPS is on battery), the forced CRITICAL applies and
\* the run prints `UPS CRITICAL - on battery;` and exits with status 2
C3_OnlineFlagStillCritical ==
    OnBattery120WithOnlineFlag =>
        /\ ~always_ok
        /\ stdout = <<"UPS CRITICAL - on battery;">>
        /\ exit_status = 2

C3_Witness == OnBattery120WithOnlineFlag /\ on_batt

----------------------------------------------------------------------------
(* C4 *)

\* the metrics the run reads: TONBATT, and each metric whose block is entered
Needed(opts) ==
    {"TONBATT"} \cup {k \in MetricKeys : Requested(WarnOf(opts, k), CritOf(opts, k))}

NeededMetricUnreadable ==
    /\ pc = "exited"
    /\ GotRecord
    /\ \E k \in Needed(options) : ~Readable(apcinfo, k)

\* C4: when a metric the run needs is absent or has no parsable leading
\* number, the run prints the one line `UPS UNKNOWN - <message>` and exits
\* with status 3
C4_UnreadableMetricReportsUnknown ==
    NeededMetricUnreadable =>
        /\ exit_status = 3
        /\ \E msg \in NoValueMessages : stdout = <<UnknownLine(msg)>>

----------------------------------------------------------------------------
(* C5 *)

ChargeThresholdOutsideRange(opts) ==
    \E t \in {opts.chargewarn, opts.chargecrit} :
        Given(t) /\ (t.val < 0 \/ t.val > 1000)

\* C5: a charge threshold outside [0, 100] ends the run before any status
\* query, with the one line `UPS UNKNOWN - <message>` and exit status 3
C5_BadChargeThresholdReportsUnknown ==
    (pc = "exited" /\ ChargeThresholdOutsideRange(options)) =>
        /\ ~queried
        /\ exit_status = 3
        /\ \E msg \in RangeMessages : stdout = <<UnknownLine(msg)>>

----------------------------------------------------------------------------
(* Runs compared with one another *)

\* RunResult gives, for the inputs of the run at hand, what the run did
RunResultAgrees ==
    (pc = "exited" /\ GotRecord) =>
        LET r == RunResult(options, apcinfo) IN
            /\ r.raised = raised
            /\ raised = "" =>
                /\ r.status = status
                /\ r.text = text
                /\ r.perfdata = perfdata
                /\ r.checked = checked

WithThresholds(opts, key, w, c) ==
    CASE key = "BCHARGE"  -> [opts EXCEPT !.chargewarn = w, !.chargecrit = c]
      [] key = "TIMELEFT" -> [opts EXCEPT !.timewarn = w, !.timecrit = c]
      [] key = "BATTV"    -> [opts EXCEPT !.voltwarn = w, !.voltcrit = c]

\* the record with the entry of key replaced by e
WithEntry(info, key, e) ==
    [k \in (IF e.present THEN DOMAIN info \cup {key} ELSE DOMAIN info \ {key}) |->
        IF k = key THEN e.raw ELSE info[k]]

ValueOf(info, key) == FloatOf(LeadingToken(info[key]))

IsRequested(opts, key) == Requested(WarnOf(opts, key), CritOf(opts, key))

MaxOf(S) == CHOOSE m \in S : \A x \in S : x <= m

----------------------------------------------------------------------------
(* C6 *)

OnlineAndOnWallPower ==
    /\ EndedNormally
    /\ options.online
    /\ ~(GetValue(apcinfo, "TONBATT").value > 0)

\* C6: with --online and the UPS not on battery no metric is scored, the
\* severity is OK and the exit status 0, and the text and perfdata fragments
\* are those of the same run without --online
C6_AlwaysOkScoresNothing ==
    /\ RunResultAgrees
    /\ OnlineAndOnWallPower =>
        /\ always_ok
        /\ checked = {}
        /\ status = 0
        /\ exit_status = 0
        /\ stdout = <<ReportLine(0, text, perfdata)>>
        /\ LET r == RunResult([options EXCEPT !.online = FALSE], apcinfo) IN
            /\ r.raised = ""
            /\ ~AlwaysOk(FALSE, on_batt)
            /\ text = r.text
            /\ perfdata = r.perfdata

\* a run with --online on wall power in which a displayed metric is beyond
\* its threshold
C6_Witness ==
    /\ OnlineAndOnWallPower
    /\ \E k \in MetricKeys :
        /\ IsRequested(options, k)
        /\ checkValue(ValueOf(apcinfo, k), WarnOf(options, k), CritOf(options, k), TRUE) > 0
    /\ Len(perfdata) > 0

----------------------------------------------------------------------------
(* C7 *)

\* C7: a run ends with exactly one line on standard output and an exit status
\* equal to the severity the line names; status 3 comes from the fatal-error
\* path only and statuses 0, 1, 2 from the normal path only
C7_ExitStatusNamesSeverity ==
    pc = "exited" =>
        \/ /\ raised = ""
           /\ exit_status \in 0..2
           /\ stdout = <<ReportLine(exit_status, text, perfdata)>>
        \/ /\ raised # ""
           /\ exit_status = 3
           /\ \E msg \in QueryFailures \cup NoValueMessages \cup RangeMessages :
                stdout = <<UnknownLine(msg)>>

----------------------------------------------------------------------------
(* C8 *)

\* the checks that can be added to the run at hand: a metric without a check,
\* thresholds for it, and the run with them, which ends normally having
\* called checkValue for the metric
AddedChecks ==
    {a \in [key : MetricKeys, opts : OptionSets] :
        /\ ~IsRequested(options, a.key)
        /\ \E w \in WarnChoices(a.key), c \in CritChoices(a.key) :
                a.opts = WithThresholds(options, a.key, w, c)
        /\ RunResult(a.opts, apcinfo).raised = ""
        /\ a.key \in RunResult(a.opts, apcinfo).checked}

\* the forced CRITICAL is what the run at hand reports
ForcedCritical == on_batt /\ Len(text) = 1 /\ ~always_ok

\* C8 as stated: adding one more evaluated metric check to any run never
\* lowers the overall severity, and the running severity never decreases
\* during a run
C8_AddingCheckNeverLowers ==
    /\ [](EndedNormally =>
            \A a \in AddedChecks : RunResult(a.opts, apcinfo).status >= status)
    /\ [][status' >= status]_vars

\* C8 amended: adding one more evaluated metric check never lowers the
\* overall severity of a run, unless that run is on battery with no metric
\* check, whose forced CRITICAL the added check replaces by its own result;
\* the running severity never decreases during a run
C8_AddingCheckNeverLowersUnlessForced ==
    /\ [](RunResultAgrees)
    /\ []((EndedNormally /\ ~ForcedCritical) =>
            \A a \in AddedChecks : RunResult(a.opts, apcinfo).status >= status)
    /\ [][status' >= status]_vars

\* a run that already scored a metric and to which a check can be added that
\* raises the overall severity
C8_Witness ==
    /\ EndedNormally
    /\ ~ForcedCritical
    /\ checked # {}
    /\ \E a \in AddedChecks : RunResult(a.opts, apcinfo).status > status

----------------------------------------------------------------------------
(* C9 *)

Unset(opts, key) == ~Given(WarnOf(opts, key)) /\ ~Given(CritOf(opts, key))

\* C9 as stated: a metric with neither threshold set is not passed to
\* checkValue and is still displayed, in the text and in the perfdata
C9_UnsetMetricDisplayedNotScored ==
    EndedNormally =>
        \A k \in MetricKeys :
            (Unset(options, k) /\ Readable(apcinfo, k)) =>
                /\ k \notin checked
                /\ MetricText(k, ValueOf(apcinfo, k)) \in Range(text)
                /\ MetricPerf(k, ValueOf(apcinfo, k)) \in Range(perfdata)

\* the values a key can take in a status record
ValuesOf(key) ==
    {FloatOf(LeadingToken(r)) :
        r \in {x \in RawChoices(key) : IsFloatLiteral(LeadingToken(x))}}

\* C9 amended: a metric with neither threshold set is not passed to
\* checkValue, contributes nothing to the overall severity (which is the same
\* whatever the status record holds for it) and is not displayed: the report
\* has no text fragment and no perfdata fragment for it
C9_UnsetMetricNeitherScoredNorDisplayed ==
    /\ RunResultAgrees
    /\ EndedNormally =>
        \A k \in MetricKeys :
            Unset(options, k) =>
                /\ k \notin checked
                /\ \A v \in ValuesOf(k) :
                    /\ MetricText(k, v) \notin Range(text)
                    /\ MetricPerf(k, v) \notin Range(perfdata)
                /\ \A e \in Entries(k) :
                    LET r == RunResult(options, WithEntry(apcinfo, k, e)) IN
                        r.raised = "" /\ r.status = status

\* a run that displays one metric and leaves out a readable one whose
\* thresholds are unset
C9_Witness ==
    /\ EndedNormally
    /\ Len(text) > 1
    /\ \E k \in MetricKeys : Unset(options, k) /\ Readable(apcinfo, k)

----------------------------------------------------------------------------
(* C10 *)

OnBatteryWithChecks ==
    /\ EndedNormally
    /\ GetValue(apcinfo, "TONBATT").value > 0
    /\ \E k \in MetricKeys : IsRequested(options, k)

====
